---- MODULE Spec2Model ----
(***************************************************************************)
(* The amp/story editor store: the combined reducer of                     *)
(* stories-editor (animations, currentPage, blocks).                       *)
(*                                                                         *)
(* Encoding of JavaScript values:                                          *)
(*   - a string-valued field that is undefined holds Undef;                *)
(*   - any other optional value v is None when undefined and Some(v)       *)
(*     otherwise;                                                          *)
(*   - arrays are sequences; JavaScript indices are 0-based, so the        *)
(*     element at JavaScript index i is seq[i + 1];                        *)
(*   - state.animations.animationOrder is a function whose DOMAIN is the   *)
(*     set of keys of the object.                                          *)
(***************************************************************************)
EXTENDS Integers, Sequences, FiniteSets

VARIABLES
    animationsState,   \* state.animations.animationOrder: page -> array of entries
    currentPageState,  \* state.currentPage: a page id, or Undef
    blocksState,       \* state.blocks: order (an array of page ids) and isReordering
    lastAction,        \* type, page and item of the action dispatched last
    threw,             \* whether the last dispatch ended in a TypeError
    steps,             \* number of actions dispatched so far
    selection,         \* core/block-editor: selected client ids, multi-selection
    rendered,          \* the last render of a wrapped block edit, or None
    documentState,     \* the document: menu wrapper elements, the rendered menu
    lastEvent,         \* the last contextmenu event handled (position, the selection
                       \* the handler read, whether it prevented the default), or None
    menuRenders        \* number of times the handler rendered the menu

storeVars == <<animationsState, currentPageState, blocksState, lastAction, threw, steps>>

editorVars == <<selection, rendered, documentState, lastEvent, menuRenders>>

vars == <<animationsState, currentPageState, blocksState, lastAction, threw, steps,
          selection, rendered, documentState, lastEvent, menuRenders>>

\* Number of actions dispatched in one behaviour. The properties stated over
\* store( action ) are evaluated in the states after MaxSteps actions too, so
\* they cover dispatches MaxSteps + 1 deep.
MaxSteps == 3

\* Number of times the context-menu handler renders the menu in one behaviour.
MaxMenuRenders == 2

Undef == "undefined"
None == {}
Some(x) == {x}
Val(option) == CHOOSE x \in option : TRUE

\* Page client ids that animation actions name, and the ids of the blocks on them.
\* "0" is an id that is also the first index key of an array.
Pages == {"p1", "p2"}
Items == {"0", "a", "b"}
AnimationTypes == {Undef, "fly-in"}
Durations == {1000}
Delays == {500}

\* Ids of the page blocks in the block order.
PageIds == {"p1", "p2", "p3"}
Orders == {<<>>, <<"p1", "p2">>, <<"p1", "p2", "p3">>}
Indexes == (-1)..3

ANIMATION_STATUS == [prepared |-> "prepared", playing |-> "playing", stopped |-> "stopped"]

UnknownTypes == {"@@redux/INIT", "REMOVE_ANIMATION"}

\* An action object; a field the action does not carry is Undef / None.
Action(type) ==
    [type |-> type, page |-> Undef, item |-> Undef, predecessor |-> Undef,
     animationType |-> Undef, duration |-> None, delay |-> None,
     order |-> None, index |-> None]

-----------------------------------------------------------------------------
(* JavaScript helpers *)

\* !value for the values an animationType takes: undefined and '' are falsy.
Falsy(value) == value \in {Undef, ""}

Digit == <<"0", "1", "2", "3", "4", "5", "6", "7", "8", "9">>

\* String(n) for n >= 0: the property key of array index n.
RECURSIVE ArrayKey(_)
ArrayKey(n) ==
    IF n < 10 THEN Digit[n + 1] ELSE ArrayKey(n \div 10) \o Digit[(n % 10) + 1]

\* Array.prototype.indexOf
indexOf(array, value) ==
    IF \E i \in 1..Len(array) : array[i] = value
    THEN (CHOOSE i \in 1..Len(array) :
              array[i] = value /\ \A j \in 1..(i - 1) : array[j] # value) - 1
    ELSE -1

Min(a, b) == IF a < b THEN a ELSE b
Max(a, b) == IF a > b THEN a ELSE b

\* Array.prototype.splice( start, deleteCount, ...items ):
\* the array after the call and the array of removed elements.
splice(array, start, deleteCount, items) ==
    LET len == Len(array)
        from == IF start < 0 THEN Max(len + start, 0) ELSE Min(start, len)
        count == Min(Max(deleteCount, 0), len - from)
    IN [array |-> SubSeq(array, 1, from) \o items \o SubSeq(array, from + count + 1, len),
        removed |-> SubSeq(array, from + 1, from + count)]

-----------------------------------------------------------------------------
(* animations reducer *)

\* animationOrder[ page ] || []
PageAnimationOrder(state, page) ==
    IF page \in DOMAIN state THEN state[page] ELSE <<>>

\* pageAnimationOrder.findIndex( ( { id } ) => id === entry )
entryIndex(pageAnimationOrder, entry) ==
    IF \E i \in 1..Len(pageAnimationOrder) : pageAnimationOrder[i].id = entry
    THEN (CHOOSE i \in 1..Len(pageAnimationOrder) :
              /\ pageAnimationOrder[i].id = entry
              /\ \A j \in 1..(i - 1) : pageAnimationOrder[j].id # entry) - 1
    ELSE -1

\* The validity check of a predecessor: none, or another entry of the page.
isValidAnimationPredecessor(state, page, item, predecessor) ==
    \/ predecessor = Undef
    \/ /\ predecessor # item
       /\ entryIndex(PageAnimationOrder(state, page), predecessor) # -1

\* An object literal { id } with every other property undefined.
Entry(id) ==
    [id |-> id, parent |-> Undef, animationType |-> Undef,
     duration |-> None, delay |-> None, status |-> Undef]

\* { ...state, animationOrder: { ...animationOrder, [ page ]: pageAnimationOrder } }
WithPage(state, page, pageAnimationOrder) ==
    [p \in (DOMAIN state) \cup {page} |->
        IF p = page THEN pageAnimationOrder ELSE state[p]]

\* Mutant: pushes a new entry whether or not the item has one.
AddAnimationAlwaysPushes(state, action) ==
    LET pageAnimationOrder == PageAnimationOrder(state, action.page)
        parent == IF isValidAnimationPredecessor(state, action.page, action.item,
                                                 action.predecessor)
                  THEN action.predecessor ELSE Undef
    IN WithPage(state, action.page,
                Append(pageAnimationOrder,
                       [Entry(action.item) EXCEPT !.parent = parent]))

\* Mutant: assigns the requested predecessor without the validity check.
AddAnimationUnchecked(state, action) ==
    LET pageAnimationOrder == PageAnimationOrder(state, action.page)
        i == entryIndex(pageAnimationOrder, action.item)
    IN WithPage(state, action.page,
                IF i # -1
                THEN [pageAnimationOrder EXCEPT ![i + 1].parent = action.predecessor]
                ELSE Append(pageAnimationOrder,
                            [Entry(action.item) EXCEPT !.parent = action.predecessor]))

\* Mutant: replaces the entry of an existing item by a fresh { id, parent }.
AddAnimationReplacesEntry(state, action) ==
    LET pageAnimationOrder == PageAnimationOrder(state, action.page)
        parent == IF isValidAnimationPredecessor(state, action.page, action.item,
                                                 action.predecessor)
                  THEN action.predecessor ELSE Undef
        i == entryIndex(pageAnimationOrder, action.item)
    IN WithPage(state, action.page,
                IF i # -1
                THEN [pageAnimationOrder EXCEPT
                          ![i + 1] = [Entry(action.item) EXCEPT !.parent = parent]]
                ELSE Append(pageAnimationOrder,
                            [Entry(action.item) EXCEPT !.parent = parent]))

AddAnimation(state, action) ==
    LET pageAnimationOrder == PageAnimationOrder(state, action.page)
        parent == IF isValidAnimationPredecessor(state, action.page, action.item,
                                                 action.predecessor)
                  THEN action.predecessor ELSE Undef
        i == entryIndex(pageAnimationOrder, action.item)
    IN WithPage(state, action.page,
                IF i # -1
                THEN [pageAnimationOrder EXCEPT ![i + 1].parent = parent]
                ELSE Append(pageAnimationOrder,
                            [Entry(action.item) EXCEPT !.parent = parent]))

\* The loop `for ( const successor in itemSuccessors )`: successor ranges over
\* the index keys "0", "1", ... of itemSuccessors, from key number k on.
\* itemPredecessor is the parent id of the item (a string, or undefined):
\* itemPredecessor.parent is undefined for a string and a TypeError for undefined.
RECURSIVE UpdateSuccessors(_, _, _, _)
UpdateSuccessors(pageAnimationOrder, itemPredecessor, k, n) ==
    IF k >= n
    THEN [order |-> pageAnimationOrder, threw |-> FALSE]
    ELSE LET i == entryIndex(pageAnimationOrder, ArrayKey(k))
         IN IF i # -1
            THEN IF itemPredecessor = Undef
                 THEN [order |-> pageAnimationOrder, threw |-> TRUE]
                 ELSE UpdateSuccessors([pageAnimationOrder EXCEPT ![i + 1].parent = Undef],
                                       itemPredecessor, k + 1, n)
            ELSE UpdateSuccessors(pageAnimationOrder, itemPredecessor, k + 1, n)

\* The body of case 'CHANGE_ANIMATION_TYPE' up to the return statement:
\* the page's array as the body leaves it, and whether the body threw.
ChangeAnimationTypeBody(state, action) ==
    LET pageAnimationOrder == PageAnimationOrder(state, action.page)
        i == entryIndex(pageAnimationOrder, action.item)
    IN IF i # -1
       THEN LET typed == [pageAnimationOrder EXCEPT
                              ![i + 1].animationType = action.animationType]
            IN IF Falsy(action.animationType)
               THEN LET itemPredecessor == typed[i + 1].parent
                        itemSuccessors ==
                            SelectSeq(typed, LAMBDA e : e.parent = action.item)
                    IN UpdateSuccessors(typed, itemPredecessor, 0, Len(itemSuccessors))
               ELSE [order |-> typed, threw |-> FALSE]
       ELSE [order |-> Append(pageAnimationOrder,
                              [Entry(action.item) EXCEPT
                                   !.animationType = action.animationType]),
             threw |-> FALSE]

\* Mutant: disabling the animation type removes the entry.
ChangeAnimationTypeRemoves(state, action) ==
    LET order == ChangeAnimationTypeBody(state, action).order
    IN WithPage(state, action.page,
                IF Falsy(action.animationType)
                THEN SelectSeq(order, LAMBDA e : e.id # action.item)
                ELSE order)

ChangeAnimationType(state, action) ==
    WithPage(state, action.page, ChangeAnimationTypeBody(state, action).order)

\* Mutant: pushes an entry for an item that has none, as CHANGE_ANIMATION_TYPE does.
ChangeAnimationDurationPushes(state, action) ==
    LET pageAnimationOrder == PageAnimationOrder(state, action.page)
        i == entryIndex(pageAnimationOrder, action.item)
    IN WithPage(state, action.page,
                IF i # -1
                THEN [pageAnimationOrder EXCEPT ![i + 1].duration = action.duration]
                ELSE Append(pageAnimationOrder,
                            [Entry(action.item) EXCEPT !.duration = action.duration]))

ChangeAnimationDuration(state, action) ==
    LET pageAnimationOrder == PageAnimationOrder(state, action.page)
        i == entryIndex(pageAnimationOrder, action.item)
    IN WithPage(state, action.page,
                IF i # -1
                THEN [pageAnimationOrder EXCEPT ![i + 1].duration = action.duration]
                ELSE pageAnimationOrder)

\* Mutant: pushes an entry for an item that has none, as CHANGE_ANIMATION_TYPE does.
ChangeAnimationDelayPushes(state, action) ==
    LET pageAnimationOrder == PageAnimationOrder(state, action.page)
        i == entryIndex(pageAnimationOrder, action.item)
    IN WithPage(state, action.page,
                IF i # -1
                THEN [pageAnimationOrder EXCEPT ![i + 1].delay = action.delay]
                ELSE Append(pageAnimationOrder,
                            [Entry(action.item) EXCEPT !.delay = action.delay]))

ChangeAnimationDelay(state, action) ==
    LET pageAnimationOrder == PageAnimationOrder(state, action.page)
        i == entryIndex(pageAnimationOrder, action.item)
    IN WithPage(state, action.page,
                IF i # -1
                THEN [pageAnimationOrder EXCEPT ![i + 1].delay = action.delay]
                ELSE pageAnimationOrder)

\* Mutant: the broadcast sets every entry to playing, whatever its parent.
PlayAnimationAllPlaying(state, action) ==
    LET pageAnimationOrder == PageAnimationOrder(state, action.page)
        i == entryIndex(pageAnimationOrder, action.item)
    IN WithPage(state, action.page,
                IF ~Falsy(action.item)
                THEN IF i # -1
                     THEN [pageAnimationOrder EXCEPT
                               ![i + 1].status = ANIMATION_STATUS.playing]
                     ELSE pageAnimationOrder
                ELSE [index \in 1..Len(pageAnimationOrder) |->
                         [pageAnimationOrder[index] EXCEPT !.status =
                              ANIMATION_STATUS.playing]])

PlayAnimation(state, action) ==
    LET pageAnimationOrder == PageAnimationOrder(state, action.page)
        i == entryIndex(pageAnimationOrder, action.item)
    IN WithPage(state, action.page,
                IF ~Falsy(action.item)
                THEN IF i # -1
                     THEN [pageAnimationOrder EXCEPT
                               ![i + 1].status = ANIMATION_STATUS.playing]
                     ELSE pageAnimationOrder
                ELSE [index \in 1..Len(pageAnimationOrder) |->
                         [pageAnimationOrder[index] EXCEPT !.status =
                              IF pageAnimationOrder[index].parent = Undef
                              THEN ANIMATION_STATUS.playing
                              ELSE ANIMATION_STATUS.prepared]])

\* Mutant: the broadcast stops only the entries that have no parent.
StopAnimationRootsOnly(state, action) ==
    LET pageAnimationOrder == PageAnimationOrder(state, action.page)
        i == entryIndex(pageAnimationOrder, action.item)
    IN WithPage(state, action.page,
                IF ~Falsy(action.item)
                THEN IF i # -1
                     THEN [pageAnimationOrder EXCEPT
                               ![i + 1].status = ANIMATION_STATUS.stopped]
                     ELSE pageAnimationOrder
                ELSE [index \in 1..Len(pageAnimationOrder) |->
                         IF pageAnimationOrder[index].parent = Undef
                         THEN [pageAnimationOrder[index] EXCEPT !.status =
                                   ANIMATION_STATUS.stopped]
                         ELSE pageAnimationOrder[index]])

\* Mutant: the broadcast stops the entries of every page.
StopAnimationOnAllPages(state, action) ==
    LET pageAnimationOrder == PageAnimationOrder(state, action.page)
        i == entryIndex(pageAnimationOrder, action.item)
    IN IF ~Falsy(action.item)
       THEN WithPage(state, action.page,
                     IF i # -1
                     THEN [pageAnimationOrder EXCEPT
                               ![i + 1].status = ANIMATION_STATUS.stopped]
                     ELSE pageAnimationOrder)
       ELSE [p \in (DOMAIN state) \cup {action.page} |->
                LET entries == PageAnimationOrder(state, p)
                IN [index \in 1..Len(entries) |->
                       [entries[index] EXCEPT !.status = ANIMATION_STATUS.stopped]]]

\* Mutant: ignores the target item and stops every entry of the page.
StopAnimationIgnoresTarget(state, action) ==
    LET pageAnimationOrder == PageAnimationOrder(state, action.page)
    IN WithPage(state, action.page,
                [index \in 1..Len(pageAnimationOrder) |->
                    [pageAnimationOrder[index] EXCEPT !.status =
                         ANIMATION_STATUS.stopped]])

StopAnimation(state, action) ==
    LET pageAnimationOrder == PageAnimationOrder(state, action.page)
        i == entryIndex(pageAnimationOrder, action.item)
    IN WithPage(state, action.page,
                IF ~Falsy(action.item)
                THEN IF i # -1
                     THEN [pageAnimationOrder EXCEPT
                               ![i + 1].status = ANIMATION_STATUS.stopped]
                     ELSE pageAnimationOrder
                ELSE [index \in 1..Len(pageAnimationOrder) |->
                         [pageAnimationOrder[index] EXCEPT !.status =
                              ANIMATION_STATUS.stopped]])

\* The value the reducer returns when it does not throw.
animations(state, action) ==
    CASE action.type = "ADD_ANIMATION" -> AddAnimation(state, action)
      [] action.type = "CHANGE_ANIMATION_TYPE" -> ChangeAnimationType(state, action)
      [] action.type = "CHANGE_ANIMATION_DURATION" -> ChangeAnimationDuration(state, action)
      [] action.type = "CHANGE_ANIMATION_DELAY" -> ChangeAnimationDelay(state, action)
      [] action.type = "PLAY_ANIMATION" -> PlayAnimation(state, action)
      [] action.type = "STOP_ANIMATION" -> StopAnimation(state, action)
      [] OTHER -> state

\* Whether the reducer throws (a TypeError in the loop over the successors).
animationsThrows(state, action) ==
    /\ action.type = "CHANGE_ANIMATION_TYPE"
    /\ ChangeAnimationTypeBody(state, action).threw

\* The state the store is left with when the reducer throws: pageAnimationOrder
\* is the array of the state itself, so what the body assigned before the
\* TypeError stays in the state although no new state object is returned.
animationsAfterThrow(state, action) ==
    ChangeAnimationType(state, action)

-----------------------------------------------------------------------------
(* currentPage reducer *)

\* Mutant: no default case, the page of any action becomes the current page.
currentPageWithoutDefault(state, action) ==
    action.page

currentPage(state, action) ==
    CASE action.type = "SET_CURRENT_PAGE" -> action.page
      [] OTHER -> state

-----------------------------------------------------------------------------
(* blocks reducer *)

\* Mutant: exchanges the elements at the old and the new index.
MovePageSwaps(state, action) ==
    LET order == Val(state.order)
        oldIndex == indexOf(order, action.page)
        index == Val(action.index)
    IN IF oldIndex \in 0..(Len(order) - 1) /\ index \in 0..(Len(order) - 1)
       THEN [state EXCEPT !.order =
                Some([order EXCEPT ![oldIndex + 1] = order[index + 1],
                                   ![index + 1] = order[oldIndex + 1]])]
       ELSE state

\* Mutant: inserts the page at index before taking its old occurrence out.
MovePageInsertsFirst(state, action) ==
    LET order == Val(state.order)
        inserted == splice(order, Val(action.index), 0, <<action.page>>).array
        oldIndex == indexOf(inserted, action.page)
    IN [state EXCEPT !.order = Some(splice(inserted, oldIndex, 1, <<>>).array)]

MovePage(state, action) ==
    LET oldIndex == indexOf(Val(state.order), action.page)
        taken == splice(Val(state.order), oldIndex, 1, <<>>)
        newBlockOrder == splice(taken.array, Val(action.index), 0, taken.removed).array
    IN [state EXCEPT !.order = Some(newBlockOrder)]

\* Mutant: RESET_ORDER sets the order and leaves the editor in reordering mode.
blocksResetKeepsReordering(state, action) ==
    CASE action.type = "START_REORDERING" ->
            [state EXCEPT !.order = action.order, !.isReordering = Some(TRUE)]
      [] action.type = "STOP_REORDERING" ->
            [state EXCEPT !.isReordering = Some(FALSE)]
      [] action.type = "MOVE_PAGE" -> MovePage(state, action)
      [] action.type = "RESET_ORDER" ->
            [state EXCEPT !.order = action.order]
      [] OTHER -> state

\* The value the reducer returns when it does not throw.
blocks(state, action) ==
    CASE action.type = "START_REORDERING" ->
            [state EXCEPT !.order = action.order, !.isReordering = Some(TRUE)]
      [] action.type = "STOP_REORDERING" ->
            [state EXCEPT !.isReordering = Some(FALSE)]
      [] action.type = "MOVE_PAGE" -> MovePage(state, action)
      [] action.type = "RESET_ORDER" ->
            [state EXCEPT !.order = action.order, !.isReordering = Some(FALSE)]
      [] OTHER -> state

\* state.order.indexOf on an undefined order is a TypeError.
blocksThrows(state, action) ==
    action.type = "MOVE_PAGE" /\ state.order = None

-----------------------------------------------------------------------------
(* withRightClickHandler: the higher-order component around each block edit *)

\* Block names: the page block, two allowed child blocks, a block that is not
\* allowed on a page.
BlockNames == {"amp/amp-story-page", "amp/amp-story-text", "core/image", "core/columns"}

ALLOWED_CHILD_BLOCKS == {"amp/amp-story-text", "core/image"}

\* select( 'amp/story' ).isReordering()
isReordering(state) == state.isReordering = Some(TRUE)

\* applyWithSelect: the props the wrapped component gets for a block name.
applyWithSelect(name) == [name |-> name, isReordering |-> isReordering(blocksState)]

\* Mutant: the handler is attached in reordering mode too.
withRightClickHandlerAlsoWhenReordering(props) ==
    LET isPageBlock == "amp/amp-story-page" = props.name
    IN IF ~isPageBlock /\ props.name \notin ALLOWED_CHILD_BLOCKS
       THEN FALSE
       ELSE TRUE

\* The render of the wrapped component: TRUE when BlockEdit is rendered inside
\* <div onContextMenu={ onContextMenu }>, FALSE when it is rendered as it is.
withRightClickHandler(props) ==
    LET isPageBlock == "amp/amp-story-page" = props.name
    IN IF ~isPageBlock /\ props.name \notin ALLOWED_CHILD_BLOCKS
       THEN FALSE
       ELSE IF props.isReordering
       THEN FALSE
       ELSE TRUE

\* Mutant: creates the menu wrapper element on every event that passes the checks.
onContextMenuAlwaysCreates(document, selected, event) ==
    IF Len(selected.clientIds) = 0
    THEN [document |-> document, defaultPrevented |-> FALSE, rendered |-> FALSE]
    ELSE IF selected.multi
    THEN [document |-> document, defaultPrevented |-> FALSE, rendered |-> FALSE]
    ELSE [document |-> [menuWrappers |-> document.menuWrappers + 1,
                        menu |-> Some([clientIds |-> selected.clientIds,
                                       clientX |-> event.clientX,
                                       clientY |-> event.clientY])],
          defaultPrevented |-> TRUE, rendered |-> TRUE]

\* Mutant: no check of the multi-selection.
onContextMenuOnMultiSelection(document, selected, event) ==
    IF Len(selected.clientIds) = 0
    THEN [document |-> document, defaultPrevented |-> FALSE, rendered |-> FALSE]
    ELSE [document |-> [menuWrappers |-> IF document.menuWrappers = 0
                                         THEN 1 ELSE document.menuWrappers,
                        menu |-> Some([clientIds |-> selected.clientIds,
                                       clientX |-> event.clientX,
                                       clientY |-> event.clientY])],
          defaultPrevented |-> TRUE, rendered |-> TRUE]

\* The handler: the document after it ran, whether it called
\* event.preventDefault() and whether it rendered the menu.
\* document.menuWrappers counts the elements with id
\* 'amp-story-right-click-menu'; getElementById finds one when there is any.
\* The .edit-post-layout element the wrapper is appended to is part of the
\* editor page and is taken to exist.
onContextMenu(document, selected, event) ==
    IF Len(selected.clientIds) = 0
    THEN [document |-> document, defaultPrevented |-> FALSE, rendered |-> FALSE]
    ELSE IF selected.multi
    THEN [document |-> document, defaultPrevented |-> FALSE, rendered |-> FALSE]
    ELSE LET withWrapper ==
                 IF document.menuWrappers = 0
                 THEN [document EXCEPT !.menuWrappers = document.menuWrappers + 1]
                 ELSE document
         IN [document |-> [withWrapper EXCEPT
                               !.menu = Some([clientIds |-> selected.clientIds,
                                              clientX |-> event.clientX,
                                              clientY |-> event.clientY])],
             defaultPrevented |-> TRUE, rendered |-> TRUE]

\* The selections of the block editor: none, one block, a multi-selection.
\* hasMultiSelection() holds exactly when several blocks are selected.
Selections ==
    {[clientIds |-> <<>>, multi |-> FALSE],
     [clientIds |-> <<"b1">>, multi |-> FALSE],
     [clientIds |-> <<"b2">>, multi |-> FALSE],
     [clientIds |-> <<"b1", "b2">>, multi |-> TRUE]}

\* contextmenu events, with the pointer position.
Events == {[clientX |-> x, clientY |-> 40] : x \in {10, 20}}

-----------------------------------------------------------------------------
(* The actions the editor dispatches *)

AddAnimationActions ==
    {[Action("ADD_ANIMATION") EXCEPT
          !.page = page, !.item = item, !.predecessor = predecessor] :
        page \in Pages, item \in Items, predecessor \in Items \cup {Undef}}

ChangeAnimationTypeActions ==
    {[Action("CHANGE_ANIMATION_TYPE") EXCEPT
          !.page = page, !.item = item, !.animationType = animationType] :
        page \in Pages, item \in Items, animationType \in AnimationTypes}

ChangeAnimationDurationActions ==
    {[Action("CHANGE_ANIMATION_DURATION") EXCEPT
          !.page = page, !.item = item, !.duration = Some(duration)] :
        page \in Pages, item \in Items, duration \in Durations}

ChangeAnimationDelayActions ==
    {[Action("CHANGE_ANIMATION_DELAY") EXCEPT
          !.page = page, !.item = item, !.delay = Some(delay)] :
        page \in Pages, item \in Items, delay \in Delays}

\* item Undef: no target item, the action is for every entry of the page.
PlayAnimationActions ==
    {[Action("PLAY_ANIMATION") EXCEPT !.page = page, !.item = item] :
        page \in Pages, item \in Items \cup {Undef}}

StopAnimationActions ==
    {[Action("STOP_ANIMATION") EXCEPT !.page = page, !.item = item] :
        page \in Pages, item \in Items \cup {Undef}}

SetCurrentPageActions ==
    {[Action("SET_CURRENT_PAGE") EXCEPT !.page = page] : page \in PageIds}

StartReorderingActions ==
    {[Action("START_REORDERING") EXCEPT !.order = order] :
        order \in {None} \cup {Some(o) : o \in Orders}}

StopReorderingActions == {Action("STOP_REORDERING")}

MovePageActions ==
    {[Action("MOVE_PAGE") EXCEPT !.page = page, !.index = Some(index)] :
        page \in PageIds, index \in Indexes}

ResetOrderActions ==
    {[Action("RESET_ORDER") EXCEPT !.order = order] :
        order \in {None} \cup {Some(o) : o \in Orders}}

\* Actions of a type no reducer has a case for, without and with other fields.
UnknownActions ==
    {Action(type) : type \in UnknownTypes} \cup
    {[Action(type) EXCEPT !.page = "p1", !.item = "a", !.predecessor = "b",
                          !.animationType = "fly-in", !.duration = Some(1000),
                          !.delay = Some(500), !.order = Some(<<"p2", "p1">>),
                          !.index = Some(0)] : type \in UnknownTypes}

-----------------------------------------------------------------------------
(* The store: combineReducers( { animations, currentPage, blocks } ) *)

Init ==
    /\ animationsState = [p \in {} |-> <<>>]
    /\ currentPageState = Undef
    /\ blocksState = [order |-> None, isReordering |-> None]
    /\ lastAction = [type |-> Undef, page |-> Undef, item |-> Undef]
    /\ threw = FALSE
    /\ steps = 0
    /\ selection = [clientIds |-> <<>>, multi |-> FALSE]
    /\ rendered = None
    /\ documentState = [menuWrappers |-> 0, menu |-> None]
    /\ lastEvent = None
    /\ menuRenders = 0

\* One dispatch: the slices' reducers run in the order animations, currentPage,
\* blocks; a reducer that throws leaves the store with the state it had, as
\* mutated in place so far. The result is the store after the dispatch.
store(action) ==
    IF animationsThrows(animationsState, action)
    THEN [animations |-> animationsAfterThrow(animationsState, action),
          currentPage |-> currentPageState,
          blocks |-> blocksState,
          threw |-> TRUE]
    ELSE IF blocksThrows(blocksState, action)
    THEN [animations |-> animationsState,
          currentPage |-> currentPageState,
          blocks |-> blocksState,
          threw |-> TRUE]
    ELSE [animations |-> animations(animationsState, action),
          currentPage |-> currentPage(currentPageState, action),
          blocks |-> blocks(blocksState, action),
          threw |-> FALSE]

\* lastAction records the type, page and item of the action dispatched last,
\* threw whether that dispatch ended in a TypeError.
addAnimation ==
    \E action \in AddAnimationActions :
        LET next == store(action)
        IN /\ steps < MaxSteps
           /\ steps' = steps + 1
           /\ lastAction' = [type |-> action.type, page |-> action.page, item |-> action.item]
           /\ animationsState' = next.animations
           /\ currentPageState' = next.currentPage
           /\ blocksState' = next.blocks
           /\ threw' = next.threw
           /\ UNCHANGED editorVars

changeAnimationType ==
    \E action \in ChangeAnimationTypeActions :
        LET next == store(action)
        IN /\ steps < MaxSteps
           /\ steps' = steps + 1
           /\ lastAction' = [type |-> action.type, page |-> action.page, item |-> action.item]
           /\ animationsState' = next.animations
           /\ currentPageState' = next.currentPage
           /\ blocksState' = next.blocks
           /\ threw' = next.threw
           /\ UNCHANGED editorVars

changeAnimationDuration ==
    \E action \in ChangeAnimationDurationActions :
        LET next == store(action)
        IN /\ steps < MaxSteps
           /\ steps' = steps + 1
           /\ lastAction' = [type |-> action.type, page |-> action.page, item |-> action.item]
           /\ animationsState' = next.animations
           /\ currentPageState' = next.currentPage
           /\ blocksState' = next.blocks
           /\ threw' = next.threw
           /\ UNCHANGED editorVars

changeAnimationDelay ==
    \E action \in ChangeAnimationDelayActions :
        LET next == store(action)
        IN /\ steps < MaxSteps
           /\ steps' = steps + 1
           /\ lastAction' = [type |-> action.type, page |-> action.page, item |-> action.item]
           /\ animationsState' = next.animations
           /\ currentPageState' = next.currentPage
           /\ blocksState' = next.blocks
           /\ threw' = next.threw
           /\ UNCHANGED editorVars

playAnimation ==
    \E action \in PlayAnimationActions :
        LET next == store(action)
        IN /\ steps < MaxSteps
           /\ steps' = steps + 1
           /\ lastAction' = [type |-> action.type, page |-> action.page, item |-> action.item]
           /\ animationsState' = next.animations
           /\ currentPageState' = next.currentPage
           /\ blocksState' = next.blocks
           /\ threw' = next.threw
           /\ UNCHANGED editorVars

stopAnimation ==
    \E action \in StopAnimationActions :
        LET next == store(action)
        IN /\ steps < MaxSteps
           /\ steps' = steps + 1
           /\ lastAction' = [type |-> action.type, page |-> action.page, item |-> action.item]
           /\ animationsState' = next.animations
           /\ currentPageState' = next.currentPage
           /\ blocksState' = next.blocks
           /\ threw' = next.threw
           /\ UNCHANGED editorVars

setCurrentPage ==
    \E action \in SetCurrentPageActions :
        LET next == store(action)
        IN /\ steps < MaxSteps
           /\ steps' = steps + 1
           /\ lastAction' = [type |-> action.type, page |-> action.page, item |-> action.item]
           /\ animationsState' = next.animations
           /\ currentPageState' = next.currentPage
           /\ blocksState' = next.blocks
           /\ threw' = next.threw
           /\ UNCHANGED editorVars

startReordering ==
    \E action \in StartReorderingActions :
        LET next == store(action)
        IN /\ steps < MaxSteps
           /\ steps' = steps + 1
           /\ lastAction' = [type |-> action.type, page |-> action.page, item |-> action.item]
           /\ animationsState' = next.animations
           /\ currentPageState' = next.currentPage
           /\ blocksState' = next.blocks
           /\ threw' = next.threw
           /\ UNCHANGED editorVars

stopReordering ==
    \E action \in StopReorderingActions :
        LET next == store(action)
        IN /\ steps < MaxSteps
           /\ steps' = steps + 1
           /\ lastAction' = [type |-> action.type, page |-> action.page, item |-> action.item]
           /\ animationsState' = next.animations
           /\ currentPageState' = next.currentPage
           /\ blocksState' = next.blocks
           /\ threw' = next.threw
           /\ UNCHANGED editorVars

movePage ==
    \E action \in MovePageActions :
        LET next == store(action)
        IN /\ steps < MaxSteps
           /\ steps' = steps + 1
           /\ lastAction' = [type |-> action.type, page |-> action.page, item |-> action.item]
           /\ animationsState' = next.animations
           /\ currentPageState' = next.currentPage
           /\ blocksState' = next.blocks
           /\ threw' = next.threw
           /\ UNCHANGED editorVars

resetOrder ==
    \E action \in ResetOrderActions :
        LET next == store(action)
        IN /\ steps < MaxSteps
           /\ steps' = steps + 1
           /\ lastAction' = [type |-> action.type, page |-> action.page, item |-> action.item]
           /\ animationsState' = next.animations
           /\ currentPageState' = next.currentPage
           /\ blocksState' = next.blocks
           /\ threw' = next.threw
           /\ UNCHANGED editorVars

unknownAction ==
    \E action \in UnknownActions :
        LET next == store(action)
        IN /\ steps < MaxSteps
           /\ steps' = steps + 1
           /\ lastAction' = [type |-> action.type, page |-> action.page, item |-> action.item]
           /\ animationsState' = next.animations
           /\ currentPageState' = next.currentPage
           /\ blocksState' = next.blocks
           /\ threw' = next.threw
           /\ UNCHANGED editorVars

\* The block editor changes the selection.
selectBlocks ==
    \E selected \in Selections :
        /\ selection' = selected
        /\ UNCHANGED <<rendered, documentState, lastEvent, menuRenders>>
        /\ UNCHANGED storeVars

\* The host renders the wrapped edit of a block.
renderBlock ==
    \E name \in BlockNames :
        LET props == applyWithSelect(name)
        IN /\ rendered' = Some([name |-> props.name,
                                isReordering |-> props.isReordering,
                                hasHandler |-> withRightClickHandler(props)])
           /\ UNCHANGED <<selection, documentState, lastEvent, menuRenders>>
           /\ UNCHANGED storeVars

\* A contextmenu event on a block whose edit is wrapped with the handler.
contextMenu ==
    \E name \in BlockNames, event \in Events :
        LET result == onContextMenu(documentState, selection, event)
        IN /\ withRightClickHandler(applyWithSelect(name))
           /\ menuRenders < MaxMenuRenders
           /\ documentState' = result.document
           /\ lastEvent' = Some([clientX |-> event.clientX,
                                 clientY |-> event.clientY,
                                 selected |-> selection,
                                 defaultPrevented |-> result.defaultPrevented])
           /\ menuRenders' = IF result.rendered THEN menuRenders + 1 ELSE menuRenders
           /\ UNCHANGED <<selection, rendered>>
           /\ UNCHANGED storeVars

NextMenu ==
    \/ startReordering
    \/ stopReordering
    \/ selectBlocks
    \/ renderBlock
    \/ contextMenu

NextAnimations ==
    \/ addAnimation
    \/ changeAnimationType
    \/ changeAnimationDuration
    \/ changeAnimationDelay
    \/ playAnimation
    \/ stopAnimation
    \/ unknownAction

NextBlocks ==
    \/ setCurrentPage
    \/ startReordering
    \/ stopReordering
    \/ movePage
    \/ resetOrder
    \/ unknownAction

Next ==
    \/ addAnimation
    \/ changeAnimationType
    \/ changeAnimationDuration
    \/ changeAnimationDelay
    \/ playAnimation
    \/ stopAnimation
    \/ setCurrentPage
    \/ startReordering
    \/ stopReordering
    \/ movePage
    \/ resetOrder
    \/ unknownAction

\* The whole store.
Spec == Init /\ [][Next]_vars

\* The store under the actions the animations reducer has a case for.
SpecAnimations == Init /\ [][NextAnimations]_vars

\* The store under the actions the currentPage and blocks reducers have a case for.
SpecBlocks == Init /\ [][NextBlocks]_vars

\* The block edits, the selection and the context menu, with the editor
\* entering and leaving reordering mode.
SpecMenu == Init /\ [][NextMenu]_vars

-----------------------------------------------------------------------------
(* Properties *)

\* The entries of a page and the store's slices after dispatching an action.
EntriesOf(state, page) == PageAnimationOrder(state, page)

Ids(entries) == [k \in 1..Len(entries) |-> entries[k].id]

HasEntry(entries, id) == \E k \in 1..Len(entries) : entries[k].id = id

RecognizedTypes ==
    {"ADD_ANIMATION", "CHANGE_ANIMATION_TYPE", "CHANGE_ANIMATION_DURATION",
     "CHANGE_ANIMATION_DELAY", "PLAY_ANIMATION", "STOP_ANIMATION",
     "SET_CURRENT_PAGE", "START_REORDERING", "STOP_REORDERING", "MOVE_PAGE",
     "RESET_ORDER"}

\* Actions of an unrecognized type with every combination of other fields.
UnrecognizedActions ==
    {[Action(type) EXCEPT !.page = page, !.item = item, !.order = order,
                          !.index = index] :
        type \in UnknownTypes, page \in {Undef, "p1"}, item \in {Undef, "a"},
        order \in {None, Some(<<"p2", "p1">>)}, index \in {None, Some(0)}}
    \cup UnknownActions

\* C1: in every reachable state, dispatching an action whose type is not one
\* of the recognized types, whatever page, item, order and index it carries,
\* raises no error and leaves the animations, currentPage and blocks slices
\* exactly as they were.
C1_UnrecognizedActionIsIdentity ==
    \A action \in UnrecognizedActions :
        /\ action.type \notin RecognizedTypes
        /\ store(action) = [animations |-> animationsState,
                            currentPage |-> currentPageState,
                            blocks |-> blocksState,
                            threw |-> FALSE]

\* An unrecognized action carrying a page has just been dispatched on a store
\* that has animation entries and a current page other than the action's page.
C1_Witness ==
    /\ lastAction.type \in UnknownTypes
    /\ lastAction.page # Undef
    /\ \E page \in DOMAIN animationsState : Len(animationsState[page]) > 0
    /\ currentPageState \notin {Undef, lastAction.page}

\* C2: ADD_ANIMATION( page, item, predecessor ) on a page with no entry for
\* item appends exactly one entry with that id at the end of the page's
\* sequence; on a page that has an entry for item the sequence keeps its length
\* and order, every other entry is kept as it is, and of the item's entry only
\* the parent may change (animationType, duration, delay, status are kept).
C2_AddAnimationAppendsOrUpdates ==
    \A action \in AddAnimationActions :
        LET old == EntriesOf(animationsState, action.page)
            next == store(action)
            new == EntriesOf(next.animations, action.page)
            i == entryIndex(old, action.item)
        IN /\ ~next.threw
           /\ IF i = -1
              THEN /\ Len(new) = Len(old) + 1
                   /\ SubSeq(new, 1, Len(old)) = old
                   /\ new[Len(new)].id = action.item
                   /\ Cardinality({k \in 1..Len(new) : new[k].id = action.item}) = 1
              ELSE /\ Len(new) = Len(old)
                   /\ \A k \in 1..Len(old) : k # i + 1 => new[k] = old[k]
                   /\ new[i + 1] = [old[i + 1] EXCEPT !.parent = new[i + 1].parent]

\* ADD_ANIMATION has just named an item whose entry existed before (it has an
\* animation type, which ADD_ANIMATION never sets), is not the last entry of
\* the page, and now has a predecessor.
C2_Witness ==
    /\ lastAction.type = "ADD_ANIMATION"
    /\ LET entries == EntriesOf(animationsState, lastAction.page)
           i == entryIndex(entries, lastAction.item)
       IN /\ i # -1
          /\ i + 1 < Len(entries)
          /\ entries[i + 1].animationType # Undef
          /\ entries[i + 1].parent # Undef

\* C3: CHANGE_ANIMATION_TYPE( page, item, animationType ) with an empty or
\* absent animationType on an existing entry X raises no error and gives every
\* entry of the page whose predecessor was X the predecessor of X (none if X
\* was a root), so that afterwards no entry of the page has X as predecessor.
C3_DisablingReparentsSuccessors ==
    [][(lastAction'.type = "CHANGE_ANIMATION_TYPE" /\ steps' = steps + 1) =>
        LET old == EntriesOf(animationsState, lastAction'.page)
            new == EntriesOf(animationsState', lastAction'.page)
            i == entryIndex(old, lastAction'.item)
        IN (i # -1 /\ Falsy(new[i + 1].animationType)) =>
              /\ ~threw'
              /\ Len(new) = Len(old)
              /\ \A k \in 1..Len(old) :
                    old[k].parent = lastAction'.item => new[k].parent = old[i + 1].parent
              /\ \A k \in 1..Len(new) : new[k].parent # lastAction'.item]_vars

\* C4: PLAY_ANIMATION for a page with no target item sets the status of every
\* entry of the page that has no predecessor to playing and of every entry
\* that has a predecessor to prepared, whatever the statuses were before, and
\* changes nothing else of the entries.
C4_BroadcastPlay ==
    \A action \in PlayAnimationActions :
        action.item = Undef =>
            LET old == EntriesOf(animationsState, action.page)
                next == store(action)
                new == EntriesOf(next.animations, action.page)
            IN /\ ~next.threw
               /\ Len(new) = Len(old)
               /\ \A k \in 1..Len(old) :
                     new[k] = [old[k] EXCEPT !.status =
                                  IF old[k].parent = Undef
                                  THEN ANIMATION_STATUS.playing
                                  ELSE ANIMATION_STATUS.prepared]

\* A broadcast PLAY_ANIMATION has just acted on a page that has a root entry,
\* now playing, and an entry with a predecessor, now prepared.
C4_Witness ==
    /\ lastAction.type = "PLAY_ANIMATION"
    /\ lastAction.item = Undef
    /\ LET entries == EntriesOf(animationsState, lastAction.page)
       IN /\ \E k \in 1..Len(entries) :
                entries[k].parent = Undef /\ entries[k].status = "playing"
          /\ \E k \in 1..Len(entries) :
                entries[k].parent # Undef /\ entries[k].status = "prepared"

\* C5: STOP_ANIMATION for a page with no target item sets the status of every
\* entry of the page to stopped, root or not and whatever its status was
\* before, and changes nothing else of the entries.
C5_BroadcastStop ==
    \A action \in StopAnimationActions :
        action.item = Undef =>
            LET old == EntriesOf(animationsState, action.page)
                next == store(action)
                new == EntriesOf(next.animations, action.page)
            IN /\ ~next.threw
               /\ Len(new) = Len(old)
               /\ \A k \in 1..Len(old) :
                     new[k] = [old[k] EXCEPT !.status = ANIMATION_STATUS.stopped]

\* A broadcast STOP_ANIMATION has just acted on a page that has a root entry
\* and an entry with a predecessor, and both are stopped.
C5_Witness ==
    /\ lastAction.type = "STOP_ANIMATION"
    /\ lastAction.item = Undef
    /\ LET entries == EntriesOf(animationsState, lastAction.page)
       IN /\ \E k \in 1..Len(entries) :
                entries[k].parent = Undef /\ entries[k].status = "stopped"
          /\ \E k \in 1..Len(entries) :
                entries[k].parent # Undef /\ entries[k].status = "stopped"

\* The sequence without its k-th element.
Without(seq, k) == SubSeq(seq, 1, k - 1) \o SubSeq(seq, k + 1, Len(seq))

\* new is old with at most one element taken out and put back at some position.
RelocatesOneElement(old, new) ==
    \/ new = old
    \/ \E i \in 1..Len(old), j \in 1..Len(new) :
          old[i] = new[j] /\ Without(old, i) = Without(new, j)

Range(seq) == {seq[k] : k \in 1..Len(seq)}

\* C6: MOVE_PAGE( page, index ) on a state whose block order is a sequence
\* raises no error and yields an order of the same length with the same set of
\* identifiers, and the new order is the old one with one element relocated
\* (taken out and put back, possibly at the place it had).
C6_MovePagePermutes ==
    \A action \in MovePageActions :
        blocksState.order # None =>
            LET old == Val(blocksState.order)
                next == store(action)
                new == Val(next.blocks.order)
            IN /\ ~next.threw
               /\ next.blocks.order # None
               /\ Len(new) = Len(old)
               /\ Range(new) = Range(old)
               /\ RelocatesOneElement(old, new)

\* MOVE_PAGE has just produced an order of three pages that no
\* START_REORDERING or RESET_ORDER action carries.
C6_Witness ==
    /\ lastAction.type = "MOVE_PAGE"
    /\ ~threw
    /\ blocksState.order # None
    /\ Len(Val(blocksState.order)) = 3
    /\ Val(blocksState.order) \notin Orders

\* C7: in every reachable state every entry that has a predecessor refers to
\* the id of another entry of the same page's sequence; and ADD_ANIMATION
\* stores the requested predecessor when the validity check accepts it and no
\* predecessor otherwise.
C7_PredecessorsAreEntriesOfThePage ==
    /\ \A page \in DOMAIN animationsState :
          \A k \in 1..Len(animationsState[page]) :
             LET entry == animationsState[page][k]
             IN entry.parent # Undef =>
                   /\ entry.parent # entry.id
                   /\ HasEntry(animationsState[page], entry.parent)
    /\ \A action \in AddAnimationActions :
          LET new == EntriesOf(store(action).animations, action.page)
              i == entryIndex(new, action.item)
          IN /\ i # -1
             /\ new[i + 1].parent =
                   IF isValidAnimationPredecessor(animationsState, action.page,
                                                  action.item, action.predecessor)
                   THEN action.predecessor ELSE Undef

\* A page holds a chain of two predecessor references, built by ADD_ANIMATION.
C7_Witness ==
    /\ lastAction.type = "ADD_ANIMATION"
    /\ LET entries == EntriesOf(animationsState, lastAction.page)
       IN \E j, k \in 1..Len(entries) :
             /\ entries[k].id = lastAction.item
             /\ entries[k].parent = entries[j].id
             /\ entries[j].parent # Undef

AnimationPagesLengthsKept ==
    \A page \in Pages :
        Len(EntriesOf(animationsState', page)) = Len(EntriesOf(animationsState, page))

IsPrefix(s, t) == Len(s) <= Len(t) /\ SubSeq(t, 1, Len(s)) = s

\* C9: entries are never deleted or reordered: over every step, for every
\* page, the sequence of entry ids before the step is a prefix of the sequence
\* of entry ids after it.
C9_EntryIdsOnlyGrowAtTheEnd ==
    [][\A page \in Pages :
          IsPrefix(Ids(EntriesOf(animationsState, page)),
                   Ids(EntriesOf(animationsState', page)))]_vars

\* CHANGE_ANIMATION_TYPE has just disabled the animation of the first entry of
\* a page that has further entries, and the entry is still the first.
C9_Witness ==
    /\ lastAction.type = "CHANGE_ANIMATION_TYPE"
    /\ LET entries == EntriesOf(animationsState, lastAction.page)
       IN /\ Len(entries) >= 2
          /\ entries[1].id = lastAction.item
          /\ Falsy(entries[1].animationType)
          /\ entries[2].parent = lastAction.item

\* C10: CHANGE_ANIMATION_DURATION, CHANGE_ANIMATION_DELAY, targeted
\* PLAY_ANIMATION and targeted STOP_ANIMATION that name an item with no entry
\* in the page's sequence raise no error, create no entry and leave every
\* entry of every page as it was.
C10_MissingItemIsNoOp ==
    \A action \in ChangeAnimationDurationActions \cup ChangeAnimationDelayActions
                  \cup PlayAnimationActions \cup StopAnimationActions :
        (/\ action.item # Undef
         /\ ~HasEntry(EntriesOf(animationsState, action.page), action.item)) =>
            LET next == store(action)
            IN /\ ~next.threw
               /\ \A page \in Pages \cup DOMAIN next.animations :
                     EntriesOf(next.animations, page) = EntriesOf(animationsState, page)

\* A targeted STOP_ANIMATION has just named an item that has no entry on a
\* page whose entries have a status, without raising an error.
C10_Witness ==
    /\ lastAction.type = "STOP_ANIMATION"
    /\ lastAction.item # Undef
    /\ ~threw
    /\ LET entries == EntriesOf(animationsState, lastAction.page)
       IN /\ Len(entries) > 0
          /\ ~HasEntry(entries, lastAction.item)
          /\ \E k \in 1..Len(entries) : entries[k].status # Undef

\* C12: MOVE_PAGE( page, index ) for a page id that is not in the block order
\* (the order being a sequence) is a no-op: no error is raised and the blocks
\* slice, its order included, is left exactly as it was.
C12_MoveOfAbsentPageIsNoOp ==
    [][(/\ lastAction'.type = "MOVE_PAGE"
        /\ steps' = steps + 1
        /\ blocksState.order # None
        /\ lastAction'.page \notin Range(Val(blocksState.order)))
          => (~threw' /\ blocksState' = blocksState)]_vars

Statuses ==
    {ANIMATION_STATUS.prepared, ANIMATION_STATUS.playing, ANIMATION_STATUS.stopped}

\* C13: an entry has no status when it is created; the status of an entry
\* changes only in a PLAY_ANIMATION or STOP_ANIMATION step for the entry's
\* page (ADD_ANIMATION, CHANGE_ANIMATION_TYPE, CHANGE_ANIMATION_DURATION and
\* CHANGE_ANIMATION_DELAY keep the status of every existing entry); and a
\* status that is set is one of prepared, playing, stopped and stays set.
C13_StatusOnlyByPlayAndStop ==
    [][\A page \in Pages :
          LET old == EntriesOf(animationsState, page)
              new == EntriesOf(animationsState', page)
          IN /\ Len(new) >= Len(old)
             /\ \A k \in (Len(old) + 1)..Len(new) : new[k].status = Undef
             /\ \A k \in 1..Len(old) :
                   /\ new[k].status # old[k].status =>
                         /\ lastAction'.type \in {"PLAY_ANIMATION", "STOP_ANIMATION"}
                         /\ lastAction'.page = page
                   /\ old[k].status # Undef => new[k].status \in Statuses
                   /\ new[k].status \in Statuses \cup {Undef}]_vars

\* ADD_ANIMATION has just named an item whose entry already had a status, and
\* the entry still has it.
C13_Witness ==
    /\ lastAction.type = "ADD_ANIMATION"
    /\ LET entries == EntriesOf(animationsState, lastAction.page)
           i == entryIndex(entries, lastAction.item)
       IN i # -1 /\ entries[i + 1].status \in Statuses

\* C14: a targeted PLAY_ANIMATION (STOP_ANIMATION) naming an item that has an
\* entry raises no error, sets the status of that entry to playing (stopped)
\* whatever it was, and changes nothing else: the entry keeps its id,
\* predecessor, animationType, duration and delay, and every other entry of
\* every page is kept as it is.
C14_TargetedPlayAndStop ==
    \A action \in PlayAnimationActions \cup StopAnimationActions :
        LET old == EntriesOf(animationsState, action.page)
            i == entryIndex(old, action.item)
        IN (action.item # Undef /\ i # -1) =>
              LET next == store(action)
                  new == EntriesOf(next.animations, action.page)
              IN /\ ~next.threw
                 /\ new = [old EXCEPT ![i + 1].status =
                              IF action.type = "PLAY_ANIMATION"
                              THEN ANIMATION_STATUS.playing
                              ELSE ANIMATION_STATUS.stopped]
                 /\ \A page \in Pages \ {action.page} :
                       EntriesOf(next.animations, page) = EntriesOf(animationsState, page)

\* A targeted STOP_ANIMATION has just stopped the entry of its item on a page
\* that has another entry, which is not stopped.
C14_Witness ==
    /\ lastAction.type = "STOP_ANIMATION"
    /\ lastAction.item # Undef
    /\ LET entries == EntriesOf(animationsState, lastAction.page)
           i == entryIndex(entries, lastAction.item)
       IN /\ i # -1
          /\ entries[i + 1].status = "stopped"
          /\ \E k \in 1..Len(entries) : entries[k].status # "stopped"

\* C16: in every state reachable from the empty state by animation actions no
\* page's sequence holds two entries with the same id.
C16_EntryIdsAreUnique ==
    \A page \in DOMAIN animationsState :
        \A j, k \in 1..Len(animationsState[page]) :
            animationsState[page][j].id = animationsState[page][k].id => j = k

\* ADD_ANIMATION has just named the item of the first of two entries of a
\* page, and the page still has two entries.
C16_Witness ==
    /\ lastAction.type = "ADD_ANIMATION"
    /\ LET entries == EntriesOf(animationsState, lastAction.page)
       IN Len(entries) = 2 /\ entries[1].id = lastAction.item

\* C17: MOVE_PAGE( page, index ) with page in the order and
\* 0 <= index < length raises no error, puts page at position index of the
\* new order and keeps the relative order of all other ids; a move to the
\* position the page has leaves the order unchanged.
C17_MovePagePlacesAtIndex ==
    \A action \in MovePageActions :
        (/\ blocksState.order # None
         /\ action.page \in Range(Val(blocksState.order))
         /\ Val(action.index) \in 0..(Len(Val(blocksState.order)) - 1)) =>
            LET old == Val(blocksState.order)
                next == store(action)
                new == Val(next.blocks.order)
                oldIndex == indexOf(old, action.page)
            IN /\ ~next.threw
               /\ Len(new) = Len(old)
               /\ new[Val(action.index) + 1] = action.page
               /\ Without(new, Val(action.index) + 1) = Without(old, oldIndex + 1)
               /\ Val(action.index) = oldIndex => new = old

\* MOVE_PAGE has just moved page p1 from the first to the last place of an
\* order of three pages.
C17_Witness ==
    /\ lastAction.type = "MOVE_PAGE"
    /\ lastAction.page = "p1"
    /\ blocksState.order = Some(<<"p2", "p3", "p1">>)

\* C18: the isReordering flag is not true initially; START_REORDERING sets it
\* to true, STOP_REORDERING and RESET_ORDER set it to false, and a step of any
\* other type (MOVE_PAGE, animation actions, SET_CURRENT_PAGE, unrecognized
\* actions) keeps it; STOP_REORDERING keeps the order. Hence the flag is true
\* exactly when a START_REORDERING was dispatched with no STOP_REORDERING or
\* RESET_ORDER after the last one.
C18_ReorderingFlag ==
    /\ blocksState.isReordering # Some(TRUE)
    /\ [][/\ lastAction'.type = "START_REORDERING"
             => blocksState'.isReordering = Some(TRUE)
          /\ lastAction'.type \in {"STOP_REORDERING", "RESET_ORDER"}
             => blocksState'.isReordering = Some(FALSE)
          /\ lastAction'.type \notin {"START_REORDERING", "STOP_REORDERING", "RESET_ORDER"}
             => blocksState'.isReordering = blocksState.isReordering
          /\ lastAction'.type = "STOP_REORDERING"
             => blocksState'.order = blocksState.order]_vars

\* A MOVE_PAGE has just changed the order in reordering mode, which only a
\* START_REORDERING begins, and the flag is still true.
C18_Witness ==
    /\ lastAction.type = "MOVE_PAGE"
    /\ ~threw
    /\ blocksState.isReordering = Some(TRUE)
    /\ blocksState.order # None
    /\ Val(blocksState.order) \notin Orders

\* C19: an animation action for page p changes the entries of no other page:
\* over every step, the sequence of every page other than the action's page
\* is the same before and after, broadcast PLAY_ANIMATION and STOP_ANIMATION
\* included.
C19_OtherPagesUntouched ==
    [][\A page \in Pages :
          page # lastAction'.page =>
              EntriesOf(animationsState', page) = EntriesOf(animationsState, page)]_vars

\* A broadcast STOP_ANIMATION has just stopped the entries of its page while
\* another page has an entry without status.
C19_Witness ==
    /\ lastAction.type = "STOP_ANIMATION"
    /\ lastAction.item = Undef
    /\ \E k \in 1..Len(EntriesOf(animationsState, lastAction.page)) :
          EntriesOf(animationsState, lastAction.page)[k].status = "stopped"
    /\ \E page \in Pages \ {lastAction.page} :
          \E k \in 1..Len(EntriesOf(animationsState, page)) :
             EntriesOf(animationsState, page)[k].status = Undef

\* The condition under which the wrapper attaches the handler.
WantsHandler(name, reordering) ==
    /\ name = "amp/amp-story-page" \/ name \in ALLOWED_CHILD_BLOCKS
    /\ ~reordering

\* C11: the wrapper renders a block's edit inside the element with the
\* context-menu handler if and only if the block is the page block or one of
\* the allowed child blocks and the editor is not in reordering mode; in every
\* other case the edit is rendered unwrapped.
C11_HandlerAttachedIff ==
    /\ \A name \in BlockNames :
          withRightClickHandler(applyWithSelect(name))
              <=> WantsHandler(name, isReordering(blocksState))
    /\ rendered # None =>
          (Val(rendered).hasHandler
              <=> WantsHandler(Val(rendered).name, Val(rendered).isReordering))

\* The page block has just been rendered in reordering mode, without handler.
C11_Witness ==
    /\ rendered # None
    /\ Val(rendered).name = "amp/amp-story-page"
    /\ Val(rendered).isReordering
    /\ ~Val(rendered).hasHandler
    /\ blocksState.isReordering = Some(TRUE)

\* C15: the context-menu handler does nothing (it creates no wrapper element,
\* renders no menu and does not prevent the default action) when no block is
\* selected or when several blocks are selected; otherwise it renders the menu
\* for the selected client ids at the event's clientX / clientY and prevents
\* the default action.
C15_HandlerChecksSelection ==
    \A event \in Events :
        LET result == onContextMenu(documentState, selection, event)
        IN IF Len(selection.clientIds) = 0 \/ selection.multi
           THEN /\ result.document = documentState
                /\ ~result.rendered
                /\ ~result.defaultPrevented
           ELSE /\ result.rendered
                /\ result.defaultPrevented
                /\ result.document.menu = Some([clientIds |-> selection.clientIds,
                                                clientX |-> event.clientX,
                                                clientY |-> event.clientY])

\* The handler has just ignored an event on a multi-selection: the default
\* was not prevented and the document still shows the menu of an earlier
\* event on a single block.
C15_Witness ==
    /\ lastEvent # None
    /\ Val(lastEvent).selected.multi
    /\ ~Val(lastEvent).defaultPrevented
    /\ documentState.menuWrappers = 1
    /\ documentState.menu # None
    /\ Len(Val(documentState.menu).clientIds) = 1

\* C20: after any sequence of context-menu events the document holds at most
\* one element with id 'amp-story-right-click-menu': none before the first
\* event that passes the selection checks, one from then on, which holds the
\* rendered menu.
C20_AtMostOneMenuWrapper ==
    /\ documentState.menuWrappers <= 1
    /\ documentState.menuWrappers = 1 <=> menuRenders >= 1
    /\ documentState.menu # None <=> menuRenders >= 1

\* The handler has rendered the menu twice and the document holds one wrapper.
C20_Witness ==
    /\ menuRenders = 2
    /\ documentState.menuWrappers = 1
    /\ lastEvent # None
    /\ Val(lastEvent).defaultPrevented

====
